---------------------------- MODULE Spec2Model ----------------------------
(***************************************************************************)
(* Model of the client-side API access layer, frontend/src/api.ts:         *)
(* base-URL resolution at module load, URL construction, query-string      *)
(* construction of the listing operations, and the life of one call of an  *)
(* exported operation (dispatch, response classification, outcome).        *)
(*                                                                         *)
(* A JavaScript string is a sequence of one-character strings; any other   *)
(* JavaScript value is a record tagged by its type in field t.             *)
(***************************************************************************)
EXTENDS Integers, Sequences, FiniteSets, TLC

VARIABLES
  env,            \* import.meta.env: VITE_APP_MODE, VITE_ADMIN_API_BASE, VITE_API_BASE
  appMode,        \* api.ts:10
  adminApiBase,   \* api.ts:11
  publicApiBase,  \* api.ts:12
  API_BASE,       \* api.ts:13
  normRaw,        \* an argument given to normalizeApiBase
  normOnce,       \* normalizeApiBase(normRaw), once applied
  normTwice,      \* normalizeApiBase applied to its own result, once applied
  urlPath,        \* an argument given to buildApiUrl
  urlBuilt,       \* buildApiUrl(urlPath), once applied
  pc,             \* position of the current call: idle, fetching, reading, done
  op,             \* the exported operation called
  args,           \* its arguments
  path,           \* the path the operation asks for
  request,        \* the request handed to fetch
  fetchCalls,     \* number of fetch calls of the current call
  res,            \* the response head: status and content-type header
  body,           \* the body as read by res.json() or res.text()
  outcome         \* what the caller of the operation gets

vars == <<env, appMode, adminApiBase, publicApiBase, API_BASE, normRaw, normOnce,
          normTwice, urlPath, urlBuilt, pc, op, args, path, request, fetchCalls,
          res, body, outcome>>

configVars == <<env, appMode, adminApiBase, publicApiBase, API_BASE>>
normVars == <<normRaw, normOnce, normTwice>>
urlVars == <<urlPath, urlBuilt>>
callVars == <<pc, op, args, path, request, fetchCalls, res, body, outcome>>

-----------------------------------------------------------------------------
(* Bounds of the model. *)

\* longest string given to normalizeApiBase
MaxBaseLen == 3
\* longest string given to buildApiUrl
MaxPathLen == 3

-----------------------------------------------------------------------------
(* JavaScript values. *)

Undef == [t |-> "undefined"]
Null == [t |-> "null"]
JStr(s) == [t |-> "string", v |-> s]
JNum(n) == [t |-> "number", v |-> n]
JArr(xs) == [t |-> "array", v |-> xs]
\* a response body object: its error and details properties (Undef when missing)
JBody(e, d) == [t |-> "object", error |-> e, details |-> d]
\* a details entry: its message property (Undef when missing)
JDetail(m) == [t |-> "object", message |-> m]
\* the object literal { ok: true }
OkTrue == [t |-> "object", ok |-> TRUE]
\* the value of a call that has not been made
Unset == [t |-> "unset"]

\* JavaScript truthiness of a value (the test of `if (x)`, `x ? a : b`, `x || y`)
Truthy(x) ==
  CASE x.t = "undefined" -> FALSE
    [] x.t = "null" -> FALSE
    [] x.t = "string" -> x.v # <<>>
    [] x.t = "number" -> x.v # 0
    [] OTHER -> TRUE

\* x ?? y
Coalesce(x, y) == IF x.t \in {"undefined", "null"} THEN y ELSE x

Digit(d) == <<"0", "1", "2", "3", "4", "5", "6", "7", "8", "9">>[d + 1]

RECURSIVE NatToString(_)
NatToString(n) == IF n < 10 THEN <<Digit(n)>> ELSE NatToString(n \div 10) \o <<Digit(n % 10)>>

\* Number.prototype.toString of an integer
IntToString(n) == IF n < 0 THEN <<"-">> \o NatToString(-n) ELSE NatToString(n)

\* the elements of a sequence of strings joined by commas (Array.prototype.join)
RECURSIVE JoinComma(_)
JoinComma(ss) ==
  IF ss = <<>> THEN <<>>
  ELSE ss[1] \o (IF Len(ss) > 1 THEN <<",">> ELSE <<>>) \o JoinComma(Tail(ss))

\* String(x), as a JavaScript string
RECURSIVE String(_)
String(x) ==
  CASE x.t = "string" -> x.v
    [] x.t = "array" ->
         JoinComma([i \in 1..Len(x.v) |->
                      IF x.v[i].t \in {"undefined", "null"} THEN <<>> ELSE String(x.v[i])])
    [] x.t = "number" -> IntToString(x.v)
    [] x.t = "undefined" -> <<"u", "n", "d", "e", "f", "i", "n", "e", "d">>
    [] x.t = "null" -> <<"n", "u", "l", "l">>
    [] OTHER -> <<"[", "o", "b", "j", "e", "c", "t", " ", "O", "b", "j", "e", "c", "t", "]">>

\* s.startsWith(prefix)
StartsWith(s, prefix) ==
  Len(s) >= Len(prefix) /\ SubSeq(s, 1, Len(prefix)) = prefix

\* s.includes(sub)
Includes(s, sub) ==
  \E i \in 0..(Len(s) - Len(sub)) : SubSeq(s, i + 1, i + Len(sub)) = sub

\* the white space String.prototype.trim removes: the WhiteSpace and
\* LineTerminator code points of ECMAScript.  A code point outside ASCII is
\* written as its \uXXXX escape, one element of the sequence
IsWhiteSpace(c) ==
  c \in {" ", "\t", "\n", "\r", "\f", "",
         "\\u00A0", "\\u1680", "\\u2000", "\\u2001", "\\u2002", "\\u2003",
         "\\u2004", "\\u2005", "\\u2006", "\\u2007", "\\u2008", "\\u2009",
         "\\u200A", "\\u2028", "\\u2029", "\\u202F", "\\u205F", "\\u3000",
         "\\uFEFF"}

RECURSIVE TrimStart(_)
TrimStart(s) ==
  IF s # <<>> /\ IsWhiteSpace(Head(s)) THEN TrimStart(Tail(s)) ELSE s

RECURSIVE TrimEnd(_)
TrimEnd(s) ==
  IF s # <<>> /\ IsWhiteSpace(s[Len(s)]) THEN TrimEnd(SubSeq(s, 1, Len(s) - 1)) ELSE s

\* String.prototype.trim
Trim(s) == TrimEnd(TrimStart(s))

\* all strings over alphabet of length at most n
RECURSIVE StringsUpTo(_, _)
StringsUpTo(alphabet, n) ==
  IF n = 0 THEN {<<>>}
  ELSE LET shorter == StringsUpTo(alphabet, n - 1)
       IN shorter \cup {Append(s, c) : s \in {x \in shorter : Len(x) = n - 1}, c \in alphabet}

-----------------------------------------------------------------------------
(* Module load: api.ts:1-13. *)

\* a faulty variant of the replace that strips every trailing slash (/\/+$/)
RECURSIVE StripAllTrailingSlashes(_)
StripAllTrailingSlashes(s) ==
  IF s # <<>> /\ s[Len(s)] = "/" THEN StripAllTrailingSlashes(SubSeq(s, 1, Len(s) - 1)) ELSE s

\* trimmed.replace(/\/$/, "")
StripTrailingSlash(s) ==
  IF s # <<>> /\ s[Len(s)] = "/" THEN SubSeq(s, 1, Len(s) - 1) ELSE s

normalizeApiBase(raw) ==
  IF raw.t # "string" THEN Null
  ELSE LET trimmed == Trim(raw.v)
       IN IF trimmed = <<>> THEN Null ELSE JStr(StripTrailingSlash(trimmed))

\* utils/appMode.ts is not among the sources: the mode is "admin" for the
\* configuration value "admin" and "public" otherwise
getAppMode(raw) == IF raw = JStr(<<"a", "d", "m", "i", "n">>) THEN "admin" ELSE "public"

\* a faulty variant of the selection that falls back to the other mode's override
SelectApiBaseWithFallback(mode, adminBase, publicBase) ==
  String(Coalesce(Coalesce(IF mode = "admin" THEN adminBase ELSE publicBase,
                           IF mode = "admin" THEN publicBase ELSE adminBase), JStr(<<>>)))

\* (appMode === "admin" ? adminApiBase : publicApiBase) ?? ""
SelectApiBase(mode, adminBase, publicBase) ==
  String(Coalesce(IF mode = "admin" THEN adminBase ELSE publicBase, JStr(<<>>)))

\* the state after the module is loaded under environment e
Loaded(e) ==
  /\ env = e
  /\ appMode = getAppMode(e.VITE_APP_MODE)
  /\ adminApiBase = normalizeApiBase(e.VITE_ADMIN_API_BASE)
  /\ publicApiBase = normalizeApiBase(e.VITE_API_BASE)
  /\ API_BASE = SelectApiBase(getAppMode(e.VITE_APP_MODE),
                              normalizeApiBase(e.VITE_ADMIN_API_BASE),
                              normalizeApiBase(e.VITE_API_BASE))

-----------------------------------------------------------------------------
(* URL construction: api.ts:15-18. *)

\* a faulty variant of buildApiUrl that never adds the leading slash
buildApiUrlNoSlash(p) == IF API_BASE # <<>> THEN API_BASE \o p ELSE p

buildApiUrl(p) ==
  LET normalized == IF StartsWith(p, <<"/">>) THEN p ELSE <<"/">> \o p
  IN IF API_BASE # <<>> THEN API_BASE \o normalized ELSE normalized

-----------------------------------------------------------------------------
(* Encoders of the platform, on the characters the model uses. *)

\* characters neither encoder escapes
Alphanumeric ==
  {"a", "b", "c", "d", "e", "f", "g", "h", "i", "j", "k", "l", "m", "n", "o",
   "p", "q", "r", "s", "t", "u", "v", "w", "x", "y", "z",
   "A", "B", "C", "D", "E", "F", "G", "H", "I", "J", "K", "L", "M", "N", "O",
   "P", "Q", "R", "S", "T", "U", "V", "W", "X", "Y", "Z",
   "0", "1", "2", "3", "4", "5", "6", "7", "8", "9"}

\* the %XX escape of the ASCII characters the model uses
PercentEscape(c) ==
  CASE c = " " -> <<"%", "2", "0">>
    [] c = "&" -> <<"%", "2", "6">>
    [] c = "+" -> <<"%", "2", "B">>
    [] c = "/" -> <<"%", "2", "F">>
    [] c = "=" -> <<"%", "3", "D">>
    [] c = "?" -> <<"%", "3", "F">>
    [] c = "%" -> <<"%", "2", "5">>

RECURSIVE encodeURIComponent(_)
encodeURIComponent(s) ==
  IF s = <<>> THEN <<>>
  ELSE (IF Head(s) \in Alphanumeric \cup {"-", "_", ".", "!", "~", "*", "'", "(", ")"}
        THEN <<Head(s)>> ELSE PercentEscape(Head(s)))
       \o encodeURIComponent(Tail(s))

\* the application/x-www-form-urlencoded serializer of URLSearchParams
RECURSIVE FormUrlEncode(_)
FormUrlEncode(s) ==
  IF s = <<>> THEN <<>>
  ELSE (IF Head(s) \in Alphanumeric \cup {"*", "-", ".", "_"} THEN <<Head(s)>>
        ELSE IF Head(s) = " " THEN <<"+">>
        ELSE PercentEscape(Head(s)))
       \o FormUrlEncode(Tail(s))

\* URLSearchParams.set on the list of name-value pairs sp: the first pair of
\* that name gets the value and the others of that name go, or the pair is appended
SearchParamsSet(sp, name, value) ==
  IF \E i \in 1..Len(sp) : sp[i][1] = name
  THEN LET first == CHOOSE i \in 1..Len(sp) :
                      sp[i][1] = name /\ \A j \in 1..(i - 1) : sp[j][1] # name
           keep == SelectSeq([i \in 1..Len(sp) |-> <<i, sp[i]>>],
                             LAMBDA e : e[2][1] # name \/ e[1] = first)
       IN [i \in 1..Len(keep) |->
             IF keep[i][1] = first THEN <<name, value>> ELSE keep[i][2]]
  ELSE Append(sp, <<name, value>>)

\* URLSearchParams.toString
RECURSIVE SearchParamsToString(_)
SearchParamsToString(sp) ==
  IF sp = <<>> THEN <<>>
  ELSE FormUrlEncode(sp[1][1]) \o <<"=">> \o FormUrlEncode(sp[1][2])
       \o (IF Len(sp) > 1 THEN <<"&">> ELSE <<>>)
       \o SearchParamsToString(Tail(sp))

-----------------------------------------------------------------------------
(* The exported operations: api.ts:120-340.  Each is given here by what it  *)
(* asks of jsonFetch (or, for adminUploadImage, of fetch): the path, the   *)
(* method, the kind of request body, and whether the operation replaces    *)
(* the result by { ok: true }.                                             *)

\* the arguments of a call: an identifier or slug, and a parameter object
NoParams == [q |-> Undef, tag |-> Undef, status |-> Undef, sort |-> Undef,
             page |-> Undef, pageSize |-> Undef]
Args(id, params) == [id |-> id, params |-> params]
NoArgs == Args(Undef, NoParams)

Ask(p, method, bodyKind, okTrue) ==
  [path |-> p, method |-> method, body |-> bodyKind, okTrue |-> okTrue]

\* a faulty variant of the guard that sets every parameter the caller defined
SetIfDefined(sp, name, value) ==
  IF value.t # "undefined" THEN SearchParamsSet(sp, name, String(value)) ELSE sp

\* if (params.x) sp.set("x", params.x) and if (params.n) sp.set("n", String(params.n))
SetIfTruthy(sp, name, value) ==
  IF Truthy(value) THEN SearchParamsSet(sp, name, String(value)) ELSE sp

\* `${base}${qs ? `?${qs}` : ""}` with qs = sp.toString()
WithQuery(base, sp) ==
  LET qs == SearchParamsToString(sp)
  IN base \o (IF qs # <<>> THEN <<"?">> \o qs ELSE <<>>)

signup(a) == Ask(<<"/", "a", "p", "i", "/", "s", "i", "g", "n", "u", "p">>, "POST", "json", FALSE)

adminLogin(a) == Ask(<<"/", "a", "p", "i", "/", "a", "u", "t", "h", "/", "l", "o", "g", "i", "n">>, "POST", "json", TRUE)

adminMe(a) == Ask(<<"/", "a", "p", "i", "/", "a", "u", "t", "h", "/", "m", "e">>, "GET", "none", FALSE)

adminLogout(a) == Ask(<<"/", "a", "p", "i", "/", "a", "u", "t", "h", "/", "l", "o", "g", "o", "u", "t">>, "POST", "json", FALSE)

listUsers(a) ==
  LET sp1 == SetIfTruthy(<<>>, <<"q">>, a.params.q)
      sp2 == SetIfTruthy(sp1, <<"s", "t", "a", "t", "u", "s">>, a.params.status)
      sp3 == SetIfTruthy(sp2, <<"s", "o", "r", "t">>, a.params.sort)
      sp4 == SetIfTruthy(sp3, <<"p", "a", "g", "e">>, a.params.page)
      sp5 == SetIfTruthy(sp4, <<"p", "a", "g", "e", "S", "i", "z", "e">>, a.params.pageSize)
  IN Ask(WithQuery(<<"/", "a", "p", "i", "/", "a", "d", "m", "i", "n", "/", "u", "s", "e", "r", "s">>, sp5), "GET", "none", FALSE)

updateUserStatus(a) ==
  Ask(<<"/", "a", "p", "i", "/", "a", "d", "m", "i", "n", "/", "u", "s", "e", "r", "s", "/">> \o encodeURIComponent(a.id.v), "PATCH", "json", FALSE)

adminUpdateUser(a) ==
  Ask(<<"/", "a", "p", "i", "/", "a", "d", "m", "i", "n", "/", "u", "s", "e", "r", "s", "/">> \o encodeURIComponent(a.id.v), "PATCH", "json", FALSE)

adminDeleteUser(a) ==
  Ask(<<"/", "a", "p", "i", "/", "a", "d", "m", "i", "n", "/", "u", "s", "e", "r", "s", "/">> \o encodeURIComponent(a.id.v), "DELETE", "none", TRUE)

createResetToken(a) ==
  Ask(<<"/", "a", "p", "i", "/", "a", "d", "m", "i", "n", "/", "u", "s", "e", "r", "s", "/">> \o encodeURIComponent(a.id.v) \o <<"/", "r", "e", "s", "e", "t", "-", "t", "o", "k", "e", "n">>,
      "POST", "json", FALSE)

resetPassword(a) == Ask(<<"/", "a", "p", "i", "/", "r", "e", "s", "e", "t", "-", "p", "a", "s", "s", "w", "o", "r", "d">>, "POST", "json", TRUE)

listAudit(a) ==
  LET sp1 == SetIfTruthy(<<>>, <<"p", "a", "g", "e">>, a.params.page)
      sp2 == SetIfTruthy(sp1, <<"p", "a", "g", "e", "S", "i", "z", "e">>, a.params.pageSize)
  IN Ask(WithQuery(<<"/", "a", "p", "i", "/", "a", "d", "m", "i", "n", "/", "a", "u", "d", "i", "t">>, sp2), "GET", "none", FALSE)

listBlog(a) ==
  LET sp1 == SetIfTruthy(<<>>, <<"q">>, a.params.q)
      sp2 == SetIfTruthy(sp1, <<"t", "a", "g">>, a.params.tag)
      sp3 == SetIfTruthy(sp2, <<"s", "o", "r", "t">>, a.params.sort)
      sp4 == SetIfTruthy(sp3, <<"p", "a", "g", "e">>, a.params.page)
      sp5 == SetIfTruthy(sp4, <<"p", "a", "g", "e", "S", "i", "z", "e">>, a.params.pageSize)
  IN Ask(WithQuery(<<"/", "a", "p", "i", "/", "b", "l", "o", "g">>, sp5), "GET", "none", FALSE)

getBlog(a) == Ask(<<"/", "a", "p", "i", "/", "b", "l", "o", "g", "/">> \o encodeURIComponent(a.id.v), "GET", "none", FALSE)

adminListBlog(a) ==
  LET sp1 == SetIfTruthy(<<>>, <<"q">>, a.params.q)
      sp2 == SetIfTruthy(sp1, <<"t", "a", "g">>, a.params.tag)
      sp3 == SetIfTruthy(sp2, <<"s", "t", "a", "t", "u", "s">>, a.params.status)
      sp4 == SetIfTruthy(sp3, <<"s", "o", "r", "t">>, a.params.sort)
      sp5 == SetIfTruthy(sp4, <<"p", "a", "g", "e">>, a.params.page)
      sp6 == SetIfTruthy(sp5, <<"p", "a", "g", "e", "S", "i", "z", "e">>, a.params.pageSize)
  IN Ask(WithQuery(<<"/", "a", "p", "i", "/", "a", "d", "m", "i", "n", "/", "b", "l", "o", "g">>, sp6), "GET", "none", FALSE)

adminCreateBlog(a) == Ask(<<"/", "a", "p", "i", "/", "a", "d", "m", "i", "n", "/", "b", "l", "o", "g">>, "POST", "json", FALSE)

adminUpdateBlog(a) ==
  Ask(<<"/", "a", "p", "i", "/", "a", "d", "m", "i", "n", "/", "b", "l", "o", "g", "/">> \o encodeURIComponent(a.id.v), "PATCH", "json", FALSE)

adminDeleteBlog(a) ==
  Ask(<<"/", "a", "p", "i", "/", "a", "d", "m", "i", "n", "/", "b", "l", "o", "g", "/">> \o encodeURIComponent(a.id.v), "DELETE", "none", TRUE)

adminUploadImage(a) == Ask(<<"/", "a", "p", "i", "/", "a", "d", "m", "i", "n", "/", "u", "p", "l", "o", "a", "d", "s", "/", "i", "m", "a", "g", "e">>, "POST", "formdata", FALSE)

listBlogTags(a) == Ask(<<"/", "a", "p", "i", "/", "b", "l", "o", "g", "/", "t", "a", "g", "s">>, "GET", "none", FALSE)

ListingOps == {"listUsers", "listAudit", "listBlog", "adminListBlog"}

IdOps == {"updateUserStatus", "adminUpdateUser", "adminDeleteUser", "createResetToken",
          "getBlog", "adminUpdateBlog", "adminDeleteBlog"}

PlainOps == {"signup", "adminLogin", "adminMe", "adminLogout", "resetPassword",
             "adminCreateBlog", "adminUploadImage", "listBlogTags"}

Ops == ListingOps \cup IdOps \cup PlainOps

\* what operation o asks for, given arguments a
AskOf(o, a) ==
  CASE o = "signup" -> signup(a)
    [] o = "adminLogin" -> adminLogin(a)
    [] o = "adminMe" -> adminMe(a)
    [] o = "adminLogout" -> adminLogout(a)
    [] o = "listUsers" -> listUsers(a)
    [] o = "updateUserStatus" -> updateUserStatus(a)
    [] o = "adminUpdateUser" -> adminUpdateUser(a)
    [] o = "adminDeleteUser" -> adminDeleteUser(a)
    [] o = "createResetToken" -> createResetToken(a)
    [] o = "resetPassword" -> resetPassword(a)
    [] o = "listAudit" -> listAudit(a)
    [] o = "listBlog" -> listBlog(a)
    [] o = "getBlog" -> getBlog(a)
    [] o = "adminListBlog" -> adminListBlog(a)
    [] o = "adminCreateBlog" -> adminCreateBlog(a)
    [] o = "adminUpdateBlog" -> adminUpdateBlog(a)
    [] o = "adminDeleteBlog" -> adminDeleteBlog(a)
    [] o = "adminUploadImage" -> adminUploadImage(a)
    [] o = "listBlogTags" -> listBlogTags(a)

\* the parameters operation o reads, in the order of its sp.set statements
ParamOrder(o) ==
  CASE o = "listUsers" -> <<"q", "status", "sort", "page", "pageSize">>
    [] o = "listAudit" -> <<"page", "pageSize">>
    [] o = "listBlog" -> <<"q", "tag", "sort", "page", "pageSize">>
    [] o = "adminListBlog" -> <<"q", "tag", "status", "sort", "page", "pageSize">>
    [] OTHER -> <<>>

-----------------------------------------------------------------------------
(* Request dispatch and response classification: api.ts:87-118, 318-334.   *)

Err(name, message, data) == [name |-> name, message |-> message, data |-> data]

NoOutcome == [kind |-> "none"]
Returned(v) == [kind |-> "returned", value |-> v]
Thrown(e) == [kind |-> "thrown", error |-> e]

\* api.ts:88-92: the request jsonFetch hands to fetch
jsonFetchRequest(ask) ==
  [url |-> buildApiUrl(ask.path), method |-> ask.method,
   contentType |-> JStr(<<"a", "p", "p", "l", "i", "c", "a", "t", "i", "o", "n", "/", "j", "s", "o", "n">>), credentials |-> "include",
   body |-> ask.body]

\* api.ts:321-325: the request adminUploadImage hands to fetch
adminUploadImageRequest(ask) ==
  [url |-> <<"/", "a", "p", "i", "/", "a", "d", "m", "i", "n", "/", "u", "p", "l", "o", "a", "d", "s", "/", "i", "m", "a", "g", "e">>, method |-> "POST",
   contentType |-> Undef, credentials |-> "include", body |-> "formdata"]

\* (res.headers.get("content-type") || "").includes("application/json")
isJson(r) ==
  Includes((IF Truthy(r.contentType) THEN r.contentType ELSE JStr(<<>>)).v,
           <<"a", "p", "p", "l", "i", "c", "a", "t", "i", "o", "n", "/", "j", "s", "o", "n">>)

\* res.ok
ok(r) == r.status >= 200 /\ r.status <= 299

\* body?.error
PropError(b) == IF b.t = "object" /\ "error" \in DOMAIN b THEN b.error ELSE Undef

\* body?.details
PropDetails(b) == IF b.t = "object" /\ "details" \in DOMAIN b THEN b.details ELSE Undef

\* d?.[0]
PropFirst(d) ==
  CASE d.t = "array" -> IF Len(d.v) > 0 THEN d.v[1] ELSE Undef
    [] d.t = "string" -> IF Len(d.v) > 0 THEN JStr(<<d.v[1]>>) ELSE Undef
    [] OTHER -> Undef

\* e?.message
PropMessage(e) == IF e.t = "object" /\ "message" \in DOMAIN e THEN e.message ELSE Undef

\* Array.isArray(x)
IsArray(x) == x.t = "array"

\* a faulty variant of the validation message without the fallback string
ValidationMessageNoFallback(b) == String(PropMessage(PropFirst(PropDetails(b))))

\* api.ts:99-101
ValidationMessage(b) ==
  IF Truthy(PropMessage(PropFirst(PropDetails(b))))
  THEN String(PropMessage(PropFirst(PropDetails(b))))
  ELSE <<"V", "a", "l", "i", "d", "a", "t", "i", "o", "n", " ", "e", "r", "r", "o", "r">>

\* a faulty variant of the generic message that prefers the error string to
\* the first detail message
GenericMessageErrorFirst(r, b) ==
  IF b.t = "string" THEN b.v
  ELSE IF Truthy(PropError(b)) THEN String(PropError(b))
  ELSE IF Truthy(PropMessage(PropFirst(PropDetails(b))))
       THEN String(PropMessage(PropFirst(PropDetails(b))))
  ELSE <<"H", "T", "T", "P", " ">> \o IntToString(r.status)

\* api.ts:107-114
GenericMessage(r, b) ==
  IF b.t = "string" THEN b.v
  ELSE IF Truthy(PropMessage(PropFirst(PropDetails(b))))
       THEN String(PropMessage(PropFirst(PropDetails(b))))
  ELSE IF Truthy(PropError(b)) THEN String(PropError(b))
  ELSE <<"H", "T", "T", "P", " ">> \o IntToString(r.status)

\* api.ts:97-117: what jsonFetch does with response head r and body b
jsonFetchSettle(r, b) ==
  IF ~ok(r)
  THEN IF isJson(r) /\ PropError(b) = JStr(<<"v", "a", "l", "i", "d", "a", "t", "i", "o", "n", "_", "e", "r", "r", "o", "r">>) /\ IsArray(PropDetails(b))
       THEN Thrown(Err("Error", ValidationMessage(b), b))
       ELSE Thrown(Err("Error", GenericMessage(r, b), Undef))
  ELSE Returned(b)

\* api.ts:328-333: what adminUploadImage does with response head r and body b
adminUploadImageSettle(r, b) ==
  IF ~ok(r)
  THEN Thrown(Err("Error",
                  IF b.t = "string" THEN b.v
                  ELSE IF Truthy(PropError(b)) THEN String(PropError(b))
                  ELSE <<"H", "T", "T", "P", " ">> \o IntToString(r.status),
                  Undef))
  ELSE Returned(b)

\* a faulty variant of a wrapper that answers { ok: true } whatever jsonFetch did
WrapResultSwallowing(ask, out) == IF ask.okTrue THEN Returned(OkTrue) ELSE out

\* api.ts:128-129, 184-187, 203-204, 314-315: `await jsonFetch(...); return { ok: true }`
\* against `return jsonFetch(...)`
WrapResult(ask, out) ==
  IF ask.okTrue /\ out.kind = "returned" THEN Returned(OkTrue) ELSE out

\* what the caller of operation o gets once the body b of response r is read
Settle(o, a, r, b) ==
  IF o = "adminUploadImage" THEN adminUploadImageSettle(r, b)
  ELSE WrapResult(AskOf(o, a), jsonFetchSettle(r, b))

-----------------------------------------------------------------------------
(* The inputs of the model. *)

\* values of VITE_APP_MODE
ModeInputs == {Undef, JStr(<<"a", "d", "m", "i", "n">>), JStr(<<"p", "u", "b", "l", "i", "c">>)}

\* values of VITE_ADMIN_API_BASE and VITE_API_BASE
BaseInputs ==
  {Undef, JStr(<<>>), JStr(<<" ", " ">>), JStr(<<"\r", "\n">>), JStr(<<"/">>), JStr(<<"h", "t", "t", "p", "s", ":", "/", "/", "a", ".", "i", "o">>),
   JStr(<<"h", "t", "t", "p", "s", ":", "/", "/", "d", ".", "i", "o", "/">> \o <<"\r", "\f">>),
   JStr(<<"h", "t", "t", "p", "s", ":", "/", "/", "b", ".", "i", "o", "/">>), JStr(<<" ", "h", "t", "t", "p", "s", ":", "/", "/", "c", ".", "i", "o", "/", "/", " ">>)}

Env(mode, adminBase, publicBase) ==
  [VITE_APP_MODE |-> mode, VITE_ADMIN_API_BASE |-> adminBase, VITE_API_BASE |-> publicBase]

\* identifiers and slugs
IdInputs == {JStr(<<"u", "1">>), JStr(<<"a", "b", "c", " ", "d", "e", "f">>), JStr(<<"a", "/", "b", "?", "c">>)}

StatusInputs == {200, 204, 400, 404, 409, 500}

\* values of the response's content-type header (Null: no such header)
ContentTypeInputs ==
  {Null, JStr(<<"t", "e", "x", "t", "/", "p", "l", "a", "i", "n">>), JStr(<<"a", "p", "p", "l", "i", "c", "a", "t", "i", "o", "n", "/", "j", "s", "o", "n">>),
   JStr(<<"a", "p", "p", "l", "i", "c", "a", "t", "i", "o", "n", "/", "j", "s", "o", "n", ";", " ", "c", "h", "a", "r", "s", "e", "t", "=", "u", "t", "f", "-", "8">>)}

MessageInputs == {Undef, JStr(<<>>), JStr(<<"I", "n", "v", "a", "l", "i", "d">>), JNum(7)}

DetailInputs == {Null} \cup {JDetail(m) : m \in MessageInputs}

DetailsInputs ==
  {Undef, Null, JStr(<<"o", "o", "p", "s">>), JArr(<<>>)}
  \cup {JArr(<<d>>) : d \in DetailInputs}
  \cup {JArr(<<d, JDetail(JStr(<<"T", "a", "k", "e", "n">>))>>) : d \in DetailInputs}

ErrorInputs ==
  {Undef, JStr(<<>>), JStr(<<"v", "a", "l", "i", "d", "a", "t", "i", "o", "n", "_", "e", "r", "r", "o", "r">>), JStr(<<"C", "o", "n", "f", "l", "i", "c", "t">>), JNum(42)}

\* what res.json() can resolve to
JsonBodyInputs ==
  {Null, JStr(<<"d", "o", "w", "n">>), JNum(5)} \cup {JBody(e, d) : e \in ErrorInputs, d \in DetailsInputs}

\* what res.text() can resolve to
TextBodyInputs == {JStr(<<>>), JStr(<<"N", "o", "t", " ", "f", "o", "u", "n", "d">>), JStr(<<"<", "h", "t", "m", "l", ">", "5", "0", "0", "<", "/", "h", "t", "m", "l", ">">>)}

\* rejections of fetch
TransportErrors == {Err("TypeError", <<"F", "a", "i", "l", "e", "d", " ", "t", "o", " ", "f", "e", "t", "c", "h">>, Undef)}

\* response texts that are not JSON: empty, blank, or with a first character
\* after the JSON white space that cannot begin a JSON value
UnparseableBodyInputs ==
  {<<>>, <<" ">>, <<"<", "h", "t", "m", "l", ">", "5", "0", "0", "<", "/", "h", "t", "m", "l", ">">>, <<"o", "o", "p", "s">>, <<" ", "o", "o", "p", "s">>, <<"<", "h", "t", "m", "l", ">", "5", "0", "0", "<", "/", "h", "t", "m", "l", ">", "1", "2", "3", "4", "5">>,
   <<"<", "h", "t", "m", "l", ">", "<", "b", "o", "d", "y", ">", "5", "0", "0", "<", "/", "b", "o", "d", "y", ">", "<", "/", "h", "t", "m", "l", ">">>, <<"I", "n", "t", "e", "r", "n", "a", "l", " ", "S", "e", "r", "v", "e", "r", " ", "E", "r", "r", "o", "r", " ", "5", "0", "0">>}

\* the white space JSON.parse skips
IsJsonWhiteSpace(c) == c \in {" ", "\t", "\n", "\r"}

\* the index, from 0, of the first character of raw that is no JSON white
\* space; Len(raw) when there is none
RECURSIVE JsonTokenPosition(_)
JsonTokenPosition(raw) ==
  IF raw # <<>> /\ IsJsonWhiteSpace(Head(raw)) THEN 1 + JsonTokenPosition(Tail(raw)) ELSE 0

\* the message of V8 from version 11 on for the unexpected character at index
\* pos of raw: a text of fewer than 21 characters is quoted whole, a longer
\* one by the 10 characters before and after pos, with "..." where it is cut
JsonContextMessage(raw, pos) ==
  LET head == <<"U", "n", "e", "x", "p", "e", "c", "t", "e", "d", " ", "t", "o", "k", "e", "n", " ", "'">> \o <<raw[pos + 1]>> \o <<"'", ",", " ">>
      quote(t) == <<"\"">> \o t \o <<"\"">>
      tail == <<" ", "i", "s", " ", "n", "o", "t", " ", "v", "a", "l", "i", "d", " ", "J", "S", "O", "N">>
  IN IF Len(raw) < 21 THEN head \o quote(raw) \o tail
     ELSE IF pos < 10
          THEN head \o quote(SubSeq(raw, 1, pos + 10)) \o <<".", ".", ".">> \o tail
     ELSE IF pos < Len(raw) - 10
          THEN head \o <<".", ".", ".">> \o quote(SubSeq(raw, pos - 9, pos + 10)) \o <<".", ".", ".">> \o tail
     ELSE head \o <<".", ".", ".">> \o quote(SubSeq(raw, pos - 9, Len(raw))) \o tail

\* the SyntaxError res.json() rejects with on text raw of UnparseableBodyInputs.
\* The message is the engine's, here V8's: "Unexpected end of JSON input" when
\* nothing follows the white space; else "Unexpected token c in JSON at
\* position n" up to version 10 and the message with context from version 11 on
SyntaxErrorsOf(raw) ==
  LET pos == JsonTokenPosition(raw)
  IN IF pos = Len(raw) THEN {Err("SyntaxError", <<"U", "n", "e", "x", "p", "e", "c", "t", "e", "d", " ", "e", "n", "d", " ", "o", "f", " ", "J", "S", "O", "N", " ", "i", "n", "p", "u", "t">>, Undef)}
     ELSE {Err("SyntaxError",
               <<"U", "n", "e", "x", "p", "e", "c", "t", "e", "d", " ", "t", "o", "k", "e", "n", " ">> \o <<raw[pos + 1]>> \o <<" ", "i", "n", " ", "J", "S", "O", "N", " ", "a", "t", " ", "p", "o", "s", "i", "t", "i", "o", "n", " ">>
                 \o NatToString(pos),
               Undef),
           Err("SyntaxError", JsonContextMessage(raw, pos), Undef)}

\* rejections of res.json() on a body that is not JSON
SyntaxErrors == UNION {SyntaxErrorsOf(raw) : raw \in UnparseableBodyInputs}

\* largest page and pageSize a listing is asked for
MaxPage == 10

QInputs == {Undef, JStr(<<>>), JStr(<<"a", " ", "b">>), JStr(<<"x", "&", "y", "=", "1">>)}
TagInputs == {Undef, JStr(<<>>), JStr(<<"n", "e", "w", "s">>)}
SortInputs == {Undef, JStr(<<"n", "e", "w", "e", "s", "t">>), JStr(<<"o", "l", "d", "e", "s", "t">>)}
PageInputs == {Undef} \cup {JNum(n) : n \in -1..MaxPage}

\* the status filter: a UserStatus or "" for listUsers, a publish status for adminListBlog
StatusFilterInputs(o) ==
  IF o = "listUsers" THEN {Undef, JStr(<<>>), JStr(<<"p", "e", "n", "d", "i", "n", "g">>)}
  ELSE IF o = "adminListBlog" THEN {Undef, JStr(<<"d", "r", "a", "f", "t">>)}
  ELSE {Undef}

\* whether listing operation o declares parameter name
Declares(o, name) == \E i \in 1..Len(ParamOrder(o)) : ParamOrder(o)[i] = name

\* the parameter objects of listing operation o
ParamInputs(o) ==
  {[q |-> q, tag |-> tag, status |-> st, sort |-> so, page |-> pg, pageSize |-> ps] :
     q \in (IF Declares(o, "q") THEN QInputs ELSE {Undef}),
     tag \in (IF Declares(o, "tag") THEN TagInputs ELSE {Undef}),
     st \in StatusFilterInputs(o),
     so \in (IF Declares(o, "sort") THEN SortInputs ELSE {Undef}),
     pg \in PageInputs, ps \in PageInputs}

\* a few parameter objects, for the calls whose response is followed
FewParamInputs(o) ==
  {NoParams,
   [NoParams EXCEPT !.page = JNum(2)],
   [NoParams EXCEPT !.page = JNum(0), !.pageSize = JNum(10)]}
  \cup (IF Declares(o, "q") THEN {[NoParams EXCEPT !.q = JStr(<<"a", " ", "b">>)]} ELSE {})
  \cup (IF o = "listUsers"
        THEN {[NoParams EXCEPT !.status = JStr(<<"p", "e", "n", "d", "i", "n", "g">>), !.page = JNum(2)],
              [NoParams EXCEPT !.status = JStr(<<>>)]}
        ELSE {})

\* the arguments operation o is called with
ArgInputs(o) ==
  IF o \in ListingOps THEN {Args(Undef, p) : p \in FewParamInputs(o)}
  ELSE IF o \in IdOps THEN {Args(id, NoParams) : id \in IdInputs}
  ELSE {NoArgs}

\* the environments under which calls are followed
EnvInputs ==
  {Env(Undef, Undef, Undef),
   Env(JStr(<<"a", "d", "m", "i", "n">>), JStr(<<"h", "t", "t", "p", "s", ":", "/", "/", "b", ".", "i", "o", "/">>), Undef),
   Env(JStr(<<"a", "d", "m", "i", "n">>), Undef, JStr(<<"h", "t", "t", "p", "s", ":", "/", "/", "a", ".", "i", "o">>)),
   Env(JStr(<<"p", "u", "b", "l", "i", "c">>), JStr(<<"h", "t", "t", "p", "s", ":", "/", "/", "b", ".", "i", "o", "/">>), JStr(<<"h", "t", "t", "p", "s", ":", "/", "/", "a", ".", "i", "o">>))}

-----------------------------------------------------------------------------
(* The states after module load. *)

NormIdle == normRaw = Unset /\ normOnce = Unset /\ normTwice = Unset

UrlIdle == urlPath = Unset /\ urlBuilt = Unset

CallIdle ==
  /\ pc = "idle"
  /\ op = "none"
  /\ args = NoArgs
  /\ path = Unset
  /\ request = Unset
  /\ fetchCalls = 0
  /\ res = Unset
  /\ body = Unset
  /\ outcome = NoOutcome

-----------------------------------------------------------------------------
(* One call of an exported operation. *)

\* the caller calls operation o with arguments a: the operation runs up to its
\* await of fetch
Call(o, a) ==
  /\ pc = "idle"
  /\ op' = o
  /\ args' = a
  /\ path' = AskOf(o, a).path
  /\ request' = IF o = "adminUploadImage" THEN adminUploadImageRequest(AskOf(o, a))
                ELSE jsonFetchRequest(AskOf(o, a))
  /\ fetchCalls' = fetchCalls + 1
  /\ pc' = "fetching"
  /\ UNCHANGED <<res, body, outcome>>
  /\ UNCHANGED <<configVars, normVars, urlVars>>

\* fetch resolves with a response: the operation reads the content type and
\* runs up to its await of res.json() or res.text()
FetchResolve(status, contentType) ==
  /\ pc = "fetching"
  /\ res' = [status |-> status, contentType |-> contentType]
  /\ pc' = "reading"
  /\ UNCHANGED <<op, args, path, request, fetchCalls, body, outcome>>
  /\ UNCHANGED <<configVars, normVars, urlVars>>

\* fetch rejects (no response): the rejection goes to the caller
FetchReject(e) ==
  /\ pc = "fetching"
  /\ outcome' = Thrown(e)
  /\ pc' = "done"
  /\ UNCHANGED <<op, args, path, request, fetchCalls, res, body>>
  /\ UNCHANGED <<configVars, normVars, urlVars>>

\* res.json() or res.text() resolves with b: the operation classifies the response
BodyResolve(b) ==
  /\ pc = "reading"
  /\ b \in (IF isJson(res) THEN JsonBodyInputs ELSE TextBodyInputs)
  /\ body' = b
  /\ outcome' = Settle(op, args, res, b)
  /\ pc' = "done"
  /\ UNCHANGED <<op, args, path, request, fetchCalls, res>>
  /\ UNCHANGED <<configVars, normVars, urlVars>>

\* res.json() rejects on a body that does not parse, or the read of the body
\* fails: the rejection goes to the caller
BodyReject(e) ==
  /\ pc = "reading"
  /\ e \in (IF isJson(res) THEN SyntaxErrors \cup TransportErrors ELSE TransportErrors)
  /\ outcome' = Thrown(e)
  /\ pc' = "done"
  /\ UNCHANGED <<op, args, path, request, fetchCalls, res, body>>
  /\ UNCHANGED <<configVars, normVars, urlVars>>

\* the call is over; the next one starts afresh
Finish ==
  /\ pc = "done"
  /\ pc' = "idle"
  /\ op' = "none"
  /\ args' = NoArgs
  /\ path' = Unset
  /\ request' = Unset
  /\ fetchCalls' = 0
  /\ res' = Unset
  /\ body' = Unset
  /\ outcome' = NoOutcome
  /\ UNCHANGED <<configVars, normVars, urlVars>>

Init ==
  /\ \E e \in EnvInputs : Loaded(e)
  /\ NormIdle
  /\ UrlIdle
  /\ CallIdle

Next ==
  \/ \E o \in Ops : \E a \in ArgInputs(o) : Call(o, a)
  \/ \E s \in StatusInputs : \E c \in ContentTypeInputs : FetchResolve(s, c)
  \/ \E e \in TransportErrors : FetchReject(e)
  \/ \E b \in JsonBodyInputs \cup TextBodyInputs : BodyResolve(b)
  \/ \E e \in SyntaxErrors \cup TransportErrors : BodyReject(e)
  \/ Finish

Spec == Init /\ [][Next]_vars

-----------------------------------------------------------------------------
(* Query-string construction: the listing operations on every parameter    *)
(* object.                                                                 *)

InitQuery ==
  /\ Loaded(Env(JStr(<<"a", "d", "m", "i", "n">>), JStr(<<"h", "t", "t", "p", "s", ":", "/", "/", "b", ".", "i", "o", "/">>), Undef))
  /\ NormIdle
  /\ UrlIdle
  /\ CallIdle

NextQuery ==
  /\ pc = "idle"
  /\ \E o \in ListingOps : \E p \in ParamInputs(o) : Call(o, Args(Undef, p))

SpecQuery == InitQuery /\ [][NextQuery]_vars

-----------------------------------------------------------------------------
(* Module load under every configuration, and buildApiUrl on every path.   *)

PathInputs == StringsUpTo({"a", "/"}, MaxPathLen)

InitConfig ==
  /\ \E m \in ModeInputs : \E a \in BaseInputs : \E p \in BaseInputs : Loaded(Env(m, a, p))
  /\ NormIdle
  /\ UrlIdle
  /\ CallIdle

\* buildApiUrl(p) is called
BuildUrl(p) ==
  /\ urlPath = Unset
  /\ urlPath' = JStr(p)
  /\ urlBuilt' = JStr(buildApiUrl(p))
  /\ UNCHANGED <<configVars, normVars, callVars>>

NextConfig == \E p \in PathInputs : BuildUrl(p)

SpecConfig == InitConfig /\ [][NextConfig]_vars

-----------------------------------------------------------------------------
(* normalizeApiBase on every short string, and on its own result.          *)

RawInputs ==
  {Undef, Null} \cup {JStr(s) : s \in StringsUpTo({"h", "/", " ", "\r"}, MaxBaseLen)}

InitNormalize ==
  /\ Loaded(Env(Undef, Undef, Undef))
  /\ normRaw \in RawInputs
  /\ normOnce = Unset
  /\ normTwice = Unset
  /\ UrlIdle
  /\ CallIdle

\* normalizeApiBase(normRaw) is called
Normalize ==
  /\ normOnce = Unset
  /\ normOnce' = normalizeApiBase(normRaw)
  /\ UNCHANGED <<normRaw, normTwice, configVars, urlVars, callVars>>

\* normalizeApiBase is called on its own result
Renormalize ==
  /\ normOnce # Unset
  /\ normTwice = Unset
  /\ normTwice' = normalizeApiBase(normOnce)
  /\ UNCHANGED <<normRaw, normOnce, configVars, urlVars, callVars>>

NextNormalize == Normalize \/ Renormalize

SpecNormalize == InitNormalize /\ [][NextNormalize]_vars

-----------------------------------------------------------------------------
(* Properties of the error path of jsonFetch.                              *)

\* a value counts as present when it is neither missing, null, the empty
\* string nor zero
IsPresent(x) ==
  \/ x.t = "string" /\ Len(x.v) > 0
  \/ x.t = "number" /\ x.v # 0
  \/ x.t \in {"object", "array"}

\* the message of the first entry of a details list (Undef when there is none)
FirstDetailMessage(b) ==
  IF b.t = "object" /\ b.details.t = "array" /\ Len(b.details.v) > 0
     /\ b.details.v[1].t = "object"
  THEN b.details.v[1].message
  ELSE Undef

\* a response that jsonFetch has classified as a failure
JsonFetchFailed ==
  /\ pc = "done"
  /\ op # "adminUploadImage"
  /\ body # Unset
  /\ res.status \notin 200..299

\* the body carries the validation-error marker and a details list
IsValidationBody(b) ==
  /\ b.t = "object"
  /\ b.error = JStr(<<"v", "a", "l", "i", "d", "a", "t", "i", "o", "n", "_", "e", "r", "r", "o", "r">>)
  /\ b.details.t = "array"

\* C1: for every non-success response whose JSON body has error =
\* "validation_error" and a details list, jsonFetch throws an error whose
\* message is the first details entry's message, or "Validation error" when
\* that message is absent or empty (also when the list is empty), and whose
\* data is the whole parsed body.
C1_ValidationErrorThrown ==
  (JsonFetchFailed /\ IsValidationBody(body)) =>
    /\ outcome.kind = "thrown"
    /\ outcome.error.message =
         (IF IsPresent(FirstDetailMessage(body))
          THEN String(FirstDetailMessage(body))
          ELSE <<"V", "a", "l", "i", "d", "a", "t", "i", "o", "n", " ", "e", "r", "r", "o", "r">>)
    /\ outcome.error.data = body

\* the spec's example: status 400, details [{message: "Invalid"}], thrown "Invalid"
C1_Witness ==
  /\ JsonFetchFailed
  /\ res.status = 400
  /\ body = JBody(JStr(<<"v", "a", "l", "i", "d", "a", "t", "i", "o", "n", "_", "e", "r", "r", "o", "r">>), JArr(<<JDetail(JStr(<<"I", "n", "v", "a", "l", "i", "d">>))>>))
  /\ outcome = Thrown(Err("Error", <<"I", "n", "v", "a", "l", "i", "d">>, body))

\* C2: for every non-success response that is not a validation error, the
\* message jsonFetch throws is (a) the body when the body is a text, (b)
\* otherwise the first details entry's message when present, (c) otherwise
\* the top-level error when present, (d) otherwise a message that contains
\* the decimal HTTP status code; no data is attached.
C2_GenericErrorPrecedence ==
  (JsonFetchFailed /\ ~IsValidationBody(body)) =>
    /\ outcome.kind = "thrown"
    /\ outcome.error.data = Undef
    /\ IF body.t = "string" THEN outcome.error.message = body.v
       ELSE IF IsPresent(FirstDetailMessage(body))
            THEN outcome.error.message = String(FirstDetailMessage(body))
       ELSE IF body.t = "object" /\ IsPresent(body.error)
            THEN outcome.error.message = String(body.error)
       ELSE Includes(outcome.error.message, NatToString(res.status))

\* the spec's example: status 409, body {error: "Conflict"}, thrown "Conflict"
C2_Witness ==
  /\ JsonFetchFailed
  /\ res.status = 409
  /\ body = JBody(JStr(<<"C", "o", "n", "f", "l", "i", "c", "t">>), Undef)
  /\ outcome = Thrown(Err("Error", <<"C", "o", "n", "f", "l", "i", "c", "t">>, Undef))

\* C3: for every response with status 500 whose body is empty (an empty
\* plain-text body) or unparseable (declared JSON, res.json() rejects with a
\* SyntaxError), the error thrown to the caller has a message containing "500".
C3_Status500MessageHasCode ==
  (/\ pc = "done"
   /\ res # Unset
   /\ res.status = 500
   /\ \/ ~isJson(res) /\ body = JStr(<<>>)
      \/ isJson(res) /\ body = Unset /\ outcome.kind = "thrown"
         /\ outcome.error.name = "SyntaxError")
  => (outcome.kind = "thrown" /\ Includes(outcome.error.message, <<"5", "0", "0">>))

\* C4: for every response, adminUploadImage gives its caller what jsonFetch
\* gives for the same response: the same result, or the same kind of error
\* with the same message and the same attached data.
C4_UploadClassifiesAsJsonFetch ==
  (pc = "done" /\ op = "adminUploadImage" /\ body # Unset) =>
    outcome = jsonFetchSettle(res, body)

\* C5: every operation sends its request to the effective base URL followed by
\* its path when the base URL is not empty, and to the bare path when it is.
C5_RequestUrlUsesBase ==
  (pc # "idle") =>
    request.url = (IF API_BASE # <<>> THEN API_BASE \o path ELSE path)

\* C10: a call dispatches exactly one request and never another; nothing is
\* handed to the caller before the call is done; then the caller has exactly
\* one outcome, a result only when a response with a success status was read
\* in full and an error in every other case ({ ok: true } wrappers included),
\* and that outcome stays as it is until the call is over.
C10_StateOk ==
  /\ pc = "idle" => (fetchCalls = 0 /\ outcome = NoOutcome)
  /\ pc \in {"fetching", "reading"} => (fetchCalls = 1 /\ outcome = NoOutcome)
  /\ pc = "done" =>
       /\ fetchCalls = 1
       /\ outcome.kind \in {"returned", "thrown"}
       /\ outcome.kind = "returned" <=>
            (res # Unset /\ body # Unset /\ res.status \in 200..299)
       /\ outcome.kind = "returned" =>
            outcome.value = (IF AskOf(op, args).okTrue THEN OkTrue ELSE body)

C10_StepOk ==
  /\ fetchCalls' > fetchCalls => (pc = "idle" /\ pc' = "fetching")
  /\ pc = "fetching" => pc' \in {"reading", "done"}
  /\ pc = "reading" => pc' = "done"
  /\ pc = "done" => pc' = "idle"

C10_OneRequestOneOutcome == []C10_StateOk /\ [][C10_StepOk]_vars

\* adminDeleteUser gets status 404: its caller gets the error, not { ok: true }
C10_Witness ==
  /\ pc = "done"
  /\ op = "adminDeleteUser"
  /\ fetchCalls = 1
  /\ res # Unset
  /\ res.status = 404
  /\ body = JStr(<<"N", "o", "t", " ", "f", "o", "u", "n", "d">>)
  /\ outcome = Thrown(Err("Error", <<"N", "o", "t", " ", "f", "o", "u", "n", "d">>, Undef))

-----------------------------------------------------------------------------
(* Properties of module load and URL construction.                         *)

\* an override is unset when it is undefined, empty or white space only
IsUnsetOverride(raw) ==
  raw.t # "string" \/ \A i \in 1..Len(raw.v) : IsWhiteSpace(raw.v[i])

\* C6: the effective base URL follows the mode alone: the normalized admin
\* override in mode "admin", the normalized public override in every other
\* mode, and the empty string when the selected override is unset, whatever
\* the other mode's override is.
C6_BaseByModeAlone ==
  LET selectedRaw == IF appMode = "admin" THEN env.VITE_ADMIN_API_BASE
                     ELSE env.VITE_API_BASE
      selected == IF appMode = "admin" THEN adminApiBase ELSE publicApiBase
  IN /\ IsUnsetOverride(selectedRaw) => API_BASE = <<>>
     /\ ~IsUnsetOverride(selectedRaw) => (selected.t = "string" /\ API_BASE = selected.v)

\* admin mode, no admin override, a public override: same-origin requests
C6_Witness ==
  /\ appMode = "admin"
  /\ env.VITE_ADMIN_API_BASE = JStr(<<" ", " ">>)
  /\ env.VITE_API_BASE = JStr(<<"h", "t", "t", "p", "s", ":", "/", "/", "a", ".", "i", "o">>)
  /\ publicApiBase = JStr(<<"h", "t", "t", "p", "s", ":", "/", "/", "a", ".", "i", "o">>)
  /\ API_BASE = <<>>

\* the trimmed input ends in a slash
EndsInSlash(raw) ==
  /\ raw.t = "string"
  /\ Trim(raw.v) # <<>>
  /\ Trim(raw.v)[Len(Trim(raw.v))] = "/"

\* normOnce is the trimmed input without its last character, a slash
StrippedExactlyOne ==
  /\ normOnce.t = "string"
  /\ normOnce.v \o <<"/">> = Trim(normRaw.v)

\* C7 as stated: for every input ending in one or more slashes,
\* normalizeApiBase strips exactly one trailing slash after trimming, and
\* normalizing its result again gives the same result.
C7_StripsOneAndIdempotent ==
  (EndsInSlash(normRaw) /\ normOnce # Unset) =>
    /\ StrippedExactlyOne
    /\ normTwice # Unset => normTwice = normOnce

\* C7 amended: for every input ending in one or more slashes,
\* normalizeApiBase strips exactly one trailing slash after trimming;
\* normalizing its result again gives the same result exactly when that
\* result is not empty and ends in neither a slash nor white space.
C7_StripsOneIdempotentWhenClean ==
  (EndsInSlash(normRaw) /\ normOnce # Unset) =>
    /\ StrippedExactlyOne
    /\ normTwice # Unset =>
         (normTwice = normOnce <=>
            /\ normOnce.v # <<>>
            /\ normOnce.v[Len(normOnce.v)] # "/"
            /\ ~IsWhiteSpace(normOnce.v[Len(normOnce.v)]))

\* "h//" gives "h/", and that gives "h": one slash stripped each time
C7_Witness ==
  /\ normRaw = JStr(<<"h", "/", "/">>)
  /\ EndsInSlash(normRaw)
  /\ normOnce = JStr(<<"h", "/">>)
  /\ normTwice = JStr(<<"h">>)

\* the part of the built URL after the base URL
PathPart == SubSeq(urlBuilt.v, Len(API_BASE) + 1, Len(urlBuilt.v))

BeginsWithOneSlash(s) ==
  /\ Len(s) >= 1
  /\ s[1] = "/"
  /\ Len(s) >= 2 => s[2] # "/"

\* C9 as stated: for every path p the path part of buildApiUrl(p) begins with
\* exactly one slash, and for p not starting with "/" buildApiUrl(p) equals
\* buildApiUrl("/" + p).
C9_ExactlyOneLeadingSlash ==
  (urlBuilt # Unset) =>
    /\ BeginsWithOneSlash(PathPart)
    /\ ~StartsWith(urlPath.v, <<"/">>) =>
         urlBuilt.v = buildApiUrl(<<"/">> \o urlPath.v)

\* C9 amended: for every path p the path part of buildApiUrl(p) begins with a
\* slash, with exactly one unless p itself begins with two slashes, and for p
\* not starting with "/" buildApiUrl(p) equals buildApiUrl("/" + p).
C9_LeadingSlashAdded ==
  (urlBuilt # Unset) =>
    /\ StartsWith(PathPart, <<"/">>)
    /\ BeginsWithOneSlash(PathPart) <=> ~StartsWith(urlPath.v, <<"/", "/">>)
    /\ ~StartsWith(urlPath.v, <<"/">>) =>
         urlBuilt.v = buildApiUrl(<<"/">> \o urlPath.v)

\* path "a" under base "https://b.io": the slash is added
C9_Witness ==
  /\ API_BASE = <<"h", "t", "t", "p", "s", ":", "/", "/", "b", ".", "i", "o">>
  /\ urlPath = JStr(<<"a">>)
  /\ urlBuilt = JStr(<<"h", "t", "t", "p", "s", ":", "/", "/", "b", ".", "i", "o", "/", "a">>)

-----------------------------------------------------------------------------
(* Properties of the query string of the listing operations.  The query    *)
(* string is read back from the path: split at "&" and "=", and decoded.   *)

\* the characters of parameter name n
ParamName(n) ==
  CASE n = "q" -> <<"q">>
    [] n = "tag" -> <<"t", "a", "g">>
    [] n = "status" -> <<"s", "t", "a", "t", "u", "s">>
    [] n = "sort" -> <<"s", "o", "r", "t">>
    [] n = "page" -> <<"p", "a", "g", "e">>
    [] n = "pageSize" -> <<"p", "a", "g", "e", "S", "i", "z", "e">>

\* the path a listing operation asks for, without query string
ListingPath(o) ==
  CASE o = "listUsers" -> <<"/", "a", "p", "i", "/", "a", "d", "m", "i", "n", "/", "u", "s", "e", "r", "s">>
    [] o = "listAudit" -> <<"/", "a", "p", "i", "/", "a", "d", "m", "i", "n", "/", "a", "u", "d", "i", "t">>
    [] o = "listBlog" -> <<"/", "a", "p", "i", "/", "b", "l", "o", "g">>
    [] o = "adminListBlog" -> <<"/", "a", "p", "i", "/", "a", "d", "m", "i", "n", "/", "b", "l", "o", "g">>

\* the position of the first c in s, or 0
IndexOf(s, c) ==
  IF \E i \in 1..Len(s) : s[i] = c
  THEN CHOOSE i \in 1..Len(s) : s[i] = c /\ \A j \in 1..(i - 1) : s[j] # c
  ELSE 0

\* s split at every c
RECURSIVE Split(_, _)
Split(s, c) ==
  IF IndexOf(s, c) = 0 THEN <<s>>
  ELSE <<SubSeq(s, 1, IndexOf(s, c) - 1)>> \o Split(SubSeq(s, IndexOf(s, c) + 1, Len(s)), c)

\* the character a %XX escape stands for
Unescape(xx) ==
  CHOOSE c \in {" ", "&", "+", "/", "=", "?", "%"} : PercentEscape(c) = <<"%">> \o xx

\* the text a form-urlencoded value stands for
RECURSIVE FormUrlDecode(_)
FormUrlDecode(s) ==
  IF s = <<>> THEN <<>>
  ELSE IF Head(s) = "+" THEN <<" ">> \o FormUrlDecode(Tail(s))
  ELSE IF Head(s) = "%" THEN <<Unescape(SubSeq(s, 2, 3))>> \o FormUrlDecode(SubSeq(s, 4, Len(s)))
  ELSE <<Head(s)>> \o FormUrlDecode(Tail(s))

DigitValue(c) == CHOOSE d \in 0..9 : Digit(d) = c

IsDigits(s) == s # <<>> /\ \A i \in 1..Len(s) : \E d \in 0..9 : Digit(d) = s[i]

RECURSIVE DigitsValue(_)
DigitsValue(s) ==
  IF s = <<>> THEN 0 ELSE 10 * DigitsValue(SubSeq(s, 1, Len(s) - 1)) + DigitValue(s[Len(s)])

\* s is the decimal form of integer n: digits without leading zero, "-" before
\* a negative number
IsDecimalOf(s, n) ==
  LET digits == IF n < 0 THEN Tail(s) ELSE s
  IN /\ s # <<>>
     /\ n < 0 => Head(s) = "-"
     /\ IsDigits(digits)
     /\ Len(digits) > 1 => Head(digits) # "0"
     /\ DigitsValue(digits) = (IF n < 0 THEN -n ELSE n)

\* the value of parameter n in parameter object p
ParamValue(p, n) ==
  CASE n = "q" -> p.q
    [] n = "tag" -> p.tag
    [] n = "status" -> p.status
    [] n = "sort" -> p.sort
    [] n = "page" -> p.page
    [] n = "pageSize" -> p.pageSize

\* the parameters of operation o that the caller supplied with a truthy
\* value, in the order the operation inserts them
Supplied(o, p) == SelectSeq(ParamOrder(o), LAMBDA n : IsPresent(ParamValue(p, n)))

\* the name=value pairs of the query string of path s, each split at "="
QueryPairs(s) ==
  LET qs == SubSeq(s, IndexOf(s, "?") + 1, Len(s))
      parts == Split(qs, "&")
  IN [i \in 1..Len(parts) |-> Split(parts[i], "=")]

\* C8: for every listing operation and parameter object, the path carries a
\* query string exactly when some parameter has a truthy value; the query
\* string names exactly the parameters with a truthy value ("", undefined and
\* 0 are left out), in the order the operation inserts them; a numeric value
\* appears in decimal form and a text value as its form-urlencoded text.
C8_QueryHasTruthyParamsOnly ==
  (pc # "idle" /\ op \in ListingOps) =>
    LET supplied == Supplied(op, args.params)
    IN IF supplied = <<>> THEN path = ListingPath(op)
       ELSE /\ SubSeq(path, 1, Len(ListingPath(op)) + 1) = ListingPath(op) \o <<"?">>
            /\ IndexOf(path, "?") = Len(ListingPath(op)) + 1
            /\ LET pairs == QueryPairs(path)
               IN /\ Len(pairs) = Len(supplied)
                  /\ \A i \in 1..Len(pairs) :
                       /\ Len(pairs[i]) = 2
                       /\ pairs[i][1] = ParamName(supplied[i])
                       /\ LET v == ParamValue(args.params, supplied[i])
                          IN IF v.t = "number" THEN IsDecimalOf(pairs[i][2], v.v)
                             ELSE FormUrlDecode(pairs[i][2]) = v.v

\* the spec's example: listUsers({status: "pending", page: 2})
C8_Witness ==
  /\ pc = "fetching"
  /\ op = "listUsers"
  /\ args.params = [NoParams EXCEPT !.status = JStr(<<"p", "e", "n", "d", "i", "n", "g">>), !.page = JNum(2)]
  /\ path = <<"/", "a", "p", "i", "/", "a", "d", "m", "i", "n", "/", "u", "s", "e", "r", "s", "?", "s", "t", "a", "t", "u", "s", "=", "p", "e", "n", "d", "i", "n", "g", "&", "p", "a", "g", "e", "=", "2">>

====
